---------------------------- MODULE Spec2Model ----------------------------
(***************************************************************************)
(* Model of src/src/App.tsx (the second, current App of the file, lines    *)
(* 172-460): the tax / social-insurance estimator form.                    *)
(*                                                                         *)
(* Japanese identifiers of the source are romanised, since TLA+ names are  *)
(* ASCII:                                                                  *)
(*   KyuyoShotokuKojoKeisan = kyuyo shotoku kojo keisan (employment-income *)
(*   deduction), ShotokuzeiKeisan = shotokuzei keisan (income tax), ...    *)
(*                                                                         *)
(* Arithmetic.  The source computes in IEEE doubles.  Every JavaScript     *)
(* number of the program is modelled here as an exact decimal fixed-point  *)
(* value [n |-> whole yen, f |-> fraction in 1/Den yen], 0 <= f < Den,     *)
(* with value n + f/Den.  All rates of the program are multiples of 1/Den, *)
(* and every product the program forms has a whole-yen left operand, so    *)
(* the model's values are the exact real values of the program's           *)
(* expressions; the doubles differ from them by rounding error only.       *)
(* Products are split (quotient and remainder by Den) so that no           *)
(* intermediate value leaves the 32-bit range of TLC's integers.           *)
(***************************************************************************)
EXTENDS Integers, Sequences, FiniteSets, TLC

VARIABLES
    values,   \* react-hook-form's field values {income, rent, savings}
    errors,   \* react-hook-form's errors: the set of fields whose rules failed
    result,   \* useState: the displayed result rows
    calc,     \* the locals of the latest run of onSubmit (what it logs)
    event,    \* the handler that ran last: "init", "edit" or "submit"
    probe     \* a direct call of one of the two bracket functions

vars == <<values, errors, result, calc, event, probe>>

--------------------------------------------------------------------------
(* Fixed-point numbers                                                     *)

Den == 10^4

Num(i) == [n |-> i, f |-> 0]

IsInteger(x) == x.f = 0

Add(x, y) ==
    [n |-> x.n + y.n + ((x.f + y.f) \div Den), f |-> (x.f + y.f) % Den]

Sub(x, y) ==
    [n |-> x.n - y.n + ((x.f - y.f) \div Den), f |-> (x.f - y.f) % Den]

Leq(x, y) == x.n < y.n \/ (x.n = y.n /\ x.f <= y.f)

MathMax(x, y) == IF Leq(x, y) THEN y ELSE x

MathMin(x, y) == IF Leq(x, y) THEN x ELSE y

\* A rate num/den as a count of 1/Den (den divides Den for every rate used).
Rate(num, den) == (num * Den) \div den

\* rate1 * rate2 and 1 - rate, 1 + rate, on rates.
RateTimes(r1, r2) == (r1 * r2) \div Den

\* i * rate for a whole number i: exact.
Times(i, r) ==
    LET q == i \div Den
        m == i % Den
    IN  [n |-> q * r + ((m * r) \div Den), f |-> (m * r) % Den]

\* x * rate for a number x; exact when x is whole or x.f * rate is a
\* multiple of Den, as it is wherever the program multiplies.
TimesNum(x, r) == Add(Times(x.n, r), [n |-> 0, f |-> (x.f * r) \div Den])

\* Math.floor(x / d) for a whole divisor d > 0
MathFloorDiv(x, d) == Num(x.n \div d)

\* Math.floor(x / rate) for a rate > 0 (rate in 1/Den)
MathFloorDivRate(x, r) ==
    LET q == x.n \div r
        m == x.n % r
    IN  Num(q * Den + ((m * Den + x.f) \div r))

--------------------------------------------------------------------------
(* Module constants, lines 185-197                                         *)

KoseiNenkinHokenryoRitsu == Rate(183, 1000)        \* 18.300 / 100
KenkoHokenryoRitsu == Rate(1022, 10000)            \* 10.22 / 100
KoyoHokenryoRitsu_RodoshaFutan == Rate(3, 1000)
KoyoHokenryoRitsu_JigyonushiFutan == Rate(6, 1000)
RosaiHokenryoRitsu == Rate(3, 1000)

KisoKojogaku == 380000
EngelKeisu == Rate(25, 100)

--------------------------------------------------------------------------
(* kyuyo shotoku kojo keisan, lines 200-217.  The if-chain picks the first *)
(* band whose bound is >= income; each band returns its own expression.    *)

KyuyoShotokuKojoBandExclusive(income) ==
    IF income < 1625000 THEN 1
    ELSE IF income < 1800000 THEN 2
    ELSE IF income < 3600000 THEN 3
    ELSE IF income < 6600000 THEN 4
    ELSE IF income < 8500000 THEN 5
    ELSE 6

KyuyoShotokuKojoBand(income) ==
    IF income <= 1625000 THEN 1
    ELSE IF income <= 1800000 THEN 2
    ELSE IF income <= 3600000 THEN 3
    ELSE IF income <= 6600000 THEN 4
    ELSE IF income <= 8500000 THEN 5
    ELSE 6

KyuyoShotokuKojoReturn(band, income) ==
    CASE band = 1 -> MathMin(Num(income), Num(550000))
      [] band = 2 -> Sub(Times(income, Rate(4, 10)), Num(100000))
      [] band = 3 -> Add(Times(income, Rate(3, 10)), Num(80000))
      [] band = 4 -> Add(Times(income, Rate(2, 10)), Num(440000))
      [] band = 5 -> Sub(Times(income, Rate(1, 10)), Num(1100000))
      [] band = 6 -> Num(1950000)

KyuyoShotokuKojoKeisan(income) ==
    KyuyoShotokuKojoReturn(KyuyoShotokuKojoBand(income), income)

--------------------------------------------------------------------------
(* shotokuzei keisan, lines 219-240.  The argument is first truncated to a *)
(* multiple of 1,000; the if-chain then picks the bracket.                 *)

ShotokuzeiTruncate(taxable) == MathFloorDiv(taxable, 1000).n * 1000

ShotokuzeiBand(t) ==
    IF t <= 1949000 THEN 1
    ELSE IF t <= 3299000 THEN 2
    ELSE IF t <= 6949000 THEN 3
    ELSE IF t <= 8999000 THEN 4
    ELSE IF t <= 17999000 THEN 5
    ELSE IF t <= 39999000 THEN 6
    ELSE 7

ShotokuzeiReturnTypo(band, t) ==
    CASE band = 1 -> Times(t, Rate(5, 100))
      [] band = 2 -> Sub(Times(t, Rate(1, 10)), Num(975000))
      [] band = 3 -> Sub(Times(t, Rate(2, 10)), Num(427500))
      [] band = 4 -> Sub(Times(t, Rate(23, 100)), Num(636000))
      [] band = 5 -> Sub(Times(t, Rate(33, 100)), Num(1536000))
      [] band = 6 -> Sub(Times(t, Rate(40, 100)), Num(2796000))
      [] band = 7 -> Sub(Times(t, Rate(45, 100)), Num(4796000))

ShotokuzeiReturn(band, t) ==
    CASE band = 1 -> Times(t, Rate(5, 100))
      [] band = 2 -> Sub(Times(t, Rate(1, 10)), Num(97500))
      [] band = 3 -> Sub(Times(t, Rate(2, 10)), Num(427500))
      [] band = 4 -> Sub(Times(t, Rate(23, 100)), Num(636000))
      [] band = 5 -> Sub(Times(t, Rate(33, 100)), Num(1536000))
      [] band = 6 -> Sub(Times(t, Rate(40, 100)), Num(2796000))
      [] band = 7 -> Sub(Times(t, Rate(45, 100)), Num(4796000))

ShotokuzeiKeisan(taxable) ==
    LET t == ShotokuzeiTruncate(taxable)
    IN  ShotokuzeiReturn(ShotokuzeiBand(t), t)

--------------------------------------------------------------------------
(* onSubmit, lines 288-332: its locals, in the order the code computes     *)
(* them.                                                                   *)

\* formData.income * rate / 2 with its Math.floor left out
HokenryoUnfloored(income, ritsu) ==
    LET x == Times(income, ritsu)
    IN  [n |-> x.n \div 2, f |-> ((x.n % 2) * Den + x.f) \div 2]

\* Math.floor(formData.income * rate / 2), lines 291-295
Hokenryo(income, ritsu) == MathFloorDiv(Times(income, ritsu), 2)

\* line 297
ShakaiHokenryoKojo(koseiNenkin, kenkoHoken, koyoRodosha) ==
    Add(Add(koseiNenkin, kenkoHoken), koyoRodosha)

\* line 298
ShakaiHokenryoJigyonushiFutan(koseiNenkin, kenkoHoken, koyoJigyonushi, rosai) ==
    Add(Add(Add(koseiNenkin, kenkoHoken), koyoJigyonushi), rosai)

\* line 300
KyuyoShotoku(income, kyuyoShotokuKojo) == Sub(Num(income), kyuyoShotokuKojo)

\* lines 301-302
SeimeiHokenryoKojo == 120000
FuyoKojo == 380000

\* line 304
KojogakuGokei(shakaiHokenryoKojo) ==
    Add(Add(Add(shakaiHokenryoKojo, Num(SeimeiHokenryoKojo)), Num(FuyoKojo)),
        Num(KisoKojogaku))

\* line 305: Math.floor(Math.max(0, kyuyoShotoku - kojogakuGokei) / 1000) * 1000
KazeiShotokuKingaku(kyuyoShotoku, kojogakuGokei) ==
    Num(MathFloorDiv(MathMax(Num(0), Sub(kyuyoShotoku, kojogakuGokei)), 1000).n
        * 1000)

\* line 307
FukkoTokubetsuShotokuzei(shotokuzei) == TimesNum(shotokuzei, Rate(21, 1000))

\* line 308: Math.floor((shotokuzei + fukko) / 100) * 100
ShotokuzeiNenzeigaku(shotokuzei, fukko) ==
    Num(MathFloorDiv(Add(shotokuzei, fukko), 100).n * 100)

\* line 309
Juminzei(kazeiShotokuKingaku) == TimesNum(kazeiShotokuKingaku, Rate(1, 10))

\* line 311
Zeikin(shotokuzei, juminzei, shakaiHokenryoKojo) ==
    Add(Add(shotokuzei, juminzei), shakaiHokenryoKojo)

\* line 312
SuiteiShohigakuKeepsSavings(income, zeikin, rent, savings) ==
    Sub(Sub(Num(income), zeikin), Num(rent))

SuiteiShohigaku(income, zeikin, rent, savings) ==
    Sub(Sub(Sub(Num(income), zeikin), Num(rent)), Num(savings))

\* line 314: engel * 0.08 + (1 - engel) * 0.1
KeigenShohizeiRitsu ==
    RateTimes(EngelKeisu, Rate(8, 100))
        + RateTimes(Den - EngelKeisu, Rate(1, 10))

\* line 315: Math.floor(suiteiShohigaku / (1 + ritsu))
ShohizeiNozoitaShohigaku(suiteiShohigaku) ==
    MathFloorDivRate(suiteiShohigaku, Den + KeigenShohizeiRitsu)

\* line 316
Shohizei(suiteiShohigaku, nozoita) == Sub(suiteiShohigaku, nozoita)

\* line 317
ZeikintoGokei(shohizei, zeikin) == Add(shohizei, zeikin)

\* One row of the list handed to setResult, lines 320-328.  ratio is
\* value / formData.income, kept as the unevaluated quotient.
Row(group, label, value, income) ==
    [group |-> group, label |-> label, value |-> value,
     ratio |-> [num |-> value, den |-> income]]

\* The locals of one run of onSubmit(formData), and the rows it builds.
OnSubmit(formData) ==
    LET income == formData.income
        koseiNenkin == Hokenryo(income, KoseiNenkinHokenryoRitsu)
        kenkoHoken == Hokenryo(income, KenkoHokenryoRitsu)
        koyoRodosha == Hokenryo(income, KoyoHokenryoRitsu_RodoshaFutan)
        koyoJigyonushi == Hokenryo(income, KoyoHokenryoRitsu_JigyonushiFutan)
        rosai == Hokenryo(income, RosaiHokenryoRitsu)
        shakaiKojo == ShakaiHokenryoKojo(koseiNenkin, kenkoHoken, koyoRodosha)
        jigyonushi == ShakaiHokenryoJigyonushiFutan(koseiNenkin, kenkoHoken,
                                                    koyoJigyonushi, rosai)
        kyuyoKojo == KyuyoShotokuKojoKeisan(income)
        kyuyoShotoku == KyuyoShotoku(income, kyuyoKojo)
        kojoGokei == KojogakuGokei(shakaiKojo)
        kazei == KazeiShotokuKingaku(kyuyoShotoku, kojoGokei)
        shotokuzei == ShotokuzeiKeisan(kazei)
        fukko == FukkoTokubetsuShotokuzei(shotokuzei)
        nenzeigaku == ShotokuzeiNenzeigaku(shotokuzei, fukko)
        juminzei == Juminzei(kazei)
        zeikin == Zeikin(shotokuzei, juminzei, shakaiKojo)
        suitei == SuiteiShohigaku(income, zeikin, formData.rent,
                                  formData.savings)
        nozoita == ShohizeiNozoitaShohigaku(suitei)
        shohizei == Shohizei(suitei, nozoita)
        gokei == ZeikintoGokei(shohizei, zeikin)
    IN  [ran |-> TRUE,
         formData |-> formData,
         KoseiNenkinHokenryo |-> koseiNenkin,
         KenkoHokenryo |-> kenkoHoken,
         KoyoHokenryo_RodoshaFutan |-> koyoRodosha,
         KoyoHokenryo_JigyonushiFutan |-> koyoJigyonushi,
         RosaiHokenryo_JigyonushiFutan |-> rosai,
         ShakaiHokenryoKojo |-> shakaiKojo,
         ShakaiHokenryoJigyonushiFutan |-> jigyonushi,
         KyuyoShotokuKojo |-> kyuyoKojo,
         KyuyoShotoku |-> kyuyoShotoku,
         KojogakuGokei |-> kojoGokei,
         KazeiShotokuKingaku |-> kazei,
         Shotokuzei |-> shotokuzei,
         FukkoTokubetsuShotokuzei |-> fukko,
         ShotokuzeiNenzeigaku |-> nenzeigaku,
         Juminzei |-> juminzei,
         Zeikin |-> zeikin,
         SuiteiShohigaku |-> suitei,
         ShohizeiNozoitaShohigaku |-> nozoita,
         Shohizei |-> shohizei,
         ZeikintoGokei |-> gokei,
         rows |-> <<
            Row("", "shunyu", Num(income), income),
            Row("shishutsu", "yachin", Num(formData.rent), income),
            Row("shishutsu", "chochikugaku", Num(formData.savings), income),
            Row("shishutsu", "suitei shohi kingaku", nozoita, income),
            Row("shishutsu", "shakai hokenryo", shakaiKojo, income),
            Row("shishutsu", "shotokuzei", nenzeigaku, income),
            Row("shishutsu", "juminzei", juminzei, income),
            Row("shishutsu", "shohizei", shohizei, income),
            Row("", "zeikinto gokei", gokei, income) >>]

\* setResult(rows), line 319: the new list replaces the state.
SetResultAppend(prev, rows) == prev \o rows

SetResult(prev, rows) == rows

--------------------------------------------------------------------------
(* The form: useForm's defaultValues (278-284) and the Controller rules    *)
(* (353-358, 378-386, 406-414).  handleSubmit runs every field's rules and *)
(* calls onSubmit only when none fails.                                    *)

DefaultValues == [income |-> 5000000, rent |-> 1000000, savings |-> 500000]

IncomeRulesMinZero(v) == v.income >= 0

IncomeRules(v) == v.income >= 1

RentRules(v) == v.rent >= 0 /\ v.income >= v.rent + v.savings

SavingsRules(v) == v.savings >= 0 /\ v.income >= v.rent + v.savings

FailedFields(v) ==
    {fld \in {"income"} : ~IncomeRules(v)}
        \cup {fld \in {"rent"} : ~RentRules(v)}
        \cup {fld \in {"savings"} : ~SavingsRules(v)}

\* errors.income || errors.rent || errors.savings, lines 425-430
ErrorShown(errs) == "income" \in errs \/ "rent" \in errs \/ "savings" \in errs

NoCalc == [ran |-> FALSE]
NoProbe == [fn |-> "none"]

--------------------------------------------------------------------------
(* Bounds of the model and the inputs drawn within them                    *)

MaxIncome == 5       \* the form's incomes: 0 .. MaxIncome million yen, and 1
MaxRent == 2         \* the form's rents: -1 .. MaxRent million yen
MaxSavings == 1      \* the form's savings: -1 .. MaxSavings half millions
Radius == 2          \* inputs within Radius of every bracket threshold
GridMax == 26        \* a grid of GridMax steps of two million yen

Million == 10^6

\* The thresholds of the two bracket tables, as the specification lists them
\* (sections 4.1 and 4.2).
KojoThresholds == <<1625000, 1800000, 3600000, 6600000, 8500000>>
ZeiThresholds == <<1949000, 3299000, 6949000, 8999000, 17999000, 39999000>>

IncomeInputs == {k * Million : k \in 0..MaxIncome} \cup {1}
RentInputs == {k * Million : k \in -1..MaxRent}
SavingsInputs == {k * (Million \div 2) : k \in -1..MaxSavings}

Grid == {2 * k * Million : k \in 0..GridMax}

\* Incomes for direct calls and for the pipeline: around every threshold of
\* the deduction, around the cap of the lowest band, and the grid.
KojoArgs ==
    {KojoThresholds[i] + d : i \in 1..Len(KojoThresholds), d \in -Radius..(Radius + 1)}
        \cup {550000 + d : d \in -Radius..Radius}
        \cup (0..Radius)
        \cup Grid

\* Taxable incomes for direct calls: around every threshold and around the
\* next multiple of 1,000 above it, and the grid.
ZeiArgs ==
    {ZeiThresholds[i] + d : i \in 1..Len(ZeiThresholds), d \in -Radius..Radius}
        \cup {ZeiThresholds[i] + 1000 + d :
                i \in 1..Len(ZeiThresholds), d \in -Radius..Radius}
        \cup (0..Radius)
        \cup Grid

\* Form values for the pipeline runs: every income of KojoArgs with rents
\* and savings from nothing up to all of the income.
PipelineValues ==
    {[income |-> i, rent |-> r, savings |-> s] :
        i \in KojoArgs \cup {DefaultValues.income},
        r \in {0, DefaultValues.rent} \cup (-1..0),
        s \in {0, DefaultValues.savings}}
    \cup
    UNION {{[income |-> i, rent |-> i - s, savings |-> s] :
                s \in {0, i \div 2, i}} : i \in KojoArgs \ {0}}

--------------------------------------------------------------------------
(* The form's handlers                                                     *)

\* setValue('income', values.floatValue), lines 348-350
SetIncome(v) ==
    /\ values' = [values EXCEPT !.income = v]
    /\ event' = "edit"
    /\ UNCHANGED <<errors, result, calc, probe>>

\* setValue('rent', values.floatValue), lines 373-375
SetRent(v) ==
    /\ values' = [values EXCEPT !.rent = v]
    /\ event' = "edit"
    /\ UNCHANGED <<errors, result, calc, probe>>

\* setValue('savings', values.floatValue), lines 401-403
SetSavings(v) ==
    /\ values' = [values EXCEPT !.savings = v]
    /\ event' = "edit"
    /\ UNCHANGED <<errors, result, calc, probe>>

\* handleSubmit(onSubmit), line 336: the rules of every field are run; with
\* no failure onSubmit(values) runs and sets the result, otherwise only the
\* errors are set.
Submit ==
    /\ event' = "submit"
    /\ errors' = FailedFields(values)
    /\ IF FailedFields(values) = {}
       THEN /\ calc' = OnSubmit(values)
            /\ result' = SetResult(result, OnSubmit(values).rows)
       ELSE UNCHANGED <<calc, result>>
    /\ UNCHANGED <<values, probe>>

Init ==
    /\ values = DefaultValues
    /\ errors = {}
    /\ result = <<>>
    /\ calc = NoCalc
    /\ event = "init"
    /\ probe = NoProbe

Next ==
    \/ \E v \in IncomeInputs : SetIncome(v)
    \/ \E v \in RentInputs : SetRent(v)
    \/ \E v \in SavingsInputs : SetSavings(v)
    \/ Submit

Spec == Init /\ [][Next]_vars

--------------------------------------------------------------------------
(* One submission of each of a wide set of form values                     *)

InitPipeline ==
    /\ values \in PipelineValues
    /\ errors = {}
    /\ result = <<>>
    /\ calc = NoCalc
    /\ event = "edit"
    /\ probe = NoProbe

NextPipeline == Submit

SpecPipeline == InitPipeline /\ [][NextPipeline]_vars

--------------------------------------------------------------------------
(* Direct calls of the two bracket functions on a pair of arguments        *)

CallKojo ==
    /\ probe.fn = "KyuyoShotokuKojoKeisan"
    /\ probe.pc = "call"
    /\ probe' = [probe EXCEPT
                    !.pc = "returned",
                    !.banda = KyuyoShotokuKojoBand(probe.a),
                    !.bandb = KyuyoShotokuKojoBand(probe.b),
                    !.ra = KyuyoShotokuKojoKeisan(probe.a),
                    !.rb = KyuyoShotokuKojoKeisan(probe.b)]
    /\ UNCHANGED <<values, errors, result, calc, event>>

CallZei ==
    /\ probe.fn = "ShotokuzeiKeisan"
    /\ probe.pc = "call"
    /\ probe' = [probe EXCEPT
                    !.pc = "returned",
                    !.banda = ShotokuzeiBand(ShotokuzeiTruncate(Num(probe.a))),
                    !.bandb = ShotokuzeiBand(ShotokuzeiTruncate(Num(probe.b))),
                    !.ra = ShotokuzeiKeisan(Num(probe.a)),
                    !.rb = ShotokuzeiKeisan(Num(probe.b))]
    /\ UNCHANGED <<values, errors, result, calc, event>>

InitCalls ==
    /\ values = DefaultValues
    /\ errors = {}
    /\ result = <<>>
    /\ calc = NoCalc
    /\ event = "init"
    /\ \/ \E a \in KojoArgs, b \in KojoArgs :
            probe = [fn |-> "KyuyoShotokuKojoKeisan", pc |-> "call",
                     a |-> a, b |-> b, banda |-> 0, bandb |-> 0,
                     ra |-> Num(0), rb |-> Num(0)]
       \/ \E a \in ZeiArgs, b \in ZeiArgs :
            probe = [fn |-> "ShotokuzeiKeisan", pc |-> "call",
                     a |-> a, b |-> b, banda |-> 0, bandb |-> 0,
                     ra |-> Num(0), rb |-> Num(0)]

NextCalls == CallKojo \/ CallZei

SpecCalls == InitCalls /\ [][NextCalls]_vars

--------------------------------------------------------------------------
(* Vocabulary of the properties                                            *)

\* |x - y| <= tol yen
Within(x, y, tol) == Leq(Sub(x, y), Num(tol)) /\ Leq(Sub(y, x), Num(tol))

RECURSIVE SumValues(_)
SumValues(rows) ==
    IF rows = <<>> THEN Num(0)
    ELSE Add(Head(rows).value, SumValues(Tail(rows)))

\* The rows of one group, in order.
RowsOfGroup(rows, group) == SelectSeq(rows, LAMBDA r : r.group = group)

\* The value of the row with the given label.
ValueOf(rows, label) == SelectSeq(rows, LAMBDA r : r.label = label)[1].value

\* The input contract of section 6, stated on the form's values.
ValidInput(v) ==
    v.income >= 1 /\ v.rent >= 0 /\ v.savings >= 0
        /\ v.income >= v.rent + v.savings

KojoReturned == probe.fn = "KyuyoShotokuKojoKeisan" /\ probe.pc = "returned"
ZeiReturned == probe.fn = "ShotokuzeiKeisan" /\ probe.pc = "returned"

--------------------------------------------------------------------------
(* C1.  The deduction is continuous at every band boundary: for each       *)
(* threshold T the deduction at T and at T + 1 differ by at most 1 yen.    *)
C1_ContinuousAtBoundaries ==
    (KojoReturned
        /\ \E i \in 1..Len(KojoThresholds) : probe.a = KojoThresholds[i]
        /\ probe.b = probe.a + 1)
    => Within(probe.ra, probe.rb, 1)

(* C2, as stated.  The values of all rows of the group shishutsu, plus the *)
(* consumption excluding tax, equal income minus total direct tax (zeikin) *)
(* within 100 yen.                                                         *)
C2_SumLawAsStated ==
    calc.ran
    => Within(Add(SumValues(RowsOfGroup(result, "shishutsu")),
                  calc.ShohizeiNozoitaShohigaku),
              Sub(Num(calc.formData.income), calc.Zeikin),
              100)

(* C2, amended.  The values of the rows rent, savings, consumption         *)
(* excluding tax and consumption tax sum to income minus total direct tax  *)
(* (zeikin) within 100 yen.                                                *)
C2_SumLawAmended ==
    calc.ran
    => Within(Add(Add(ValueOf(result, "yachin"),
                      ValueOf(result, "chochikugaku")),
                  Add(ValueOf(result, "suitei shohi kingaku"),
                      ValueOf(result, "shohizei"))),
              Sub(Num(calc.formData.income), calc.Zeikin),
              100)

C2_Witness ==
    /\ calc.ran
    /\ calc.formData = DefaultValues
    /\ ValueOf(result, "suitei shohi kingaku") = Num(2269589)
    /\ ValueOf(result, "shohizei") = Num(215611)
    /\ calc.Zeikin = Num(1014800)

(* C3.  Rounding laws: after a run of onSubmit the taxable income is a     *)
(* non-negative multiple of 1,000, the annual income-tax liability is a    *)
(* multiple of 100, and each of the five premiums is an integer.           *)
C3_RoundingLaws ==
    calc.ran
    => /\ IsInteger(calc.KazeiShotokuKingaku)
       /\ calc.KazeiShotokuKingaku.n >= 0
       /\ calc.KazeiShotokuKingaku.n % 1000 = 0
       /\ IsInteger(calc.ShotokuzeiNenzeigaku)
       /\ calc.ShotokuzeiNenzeigaku.n % 100 = 0
       /\ IsInteger(calc.KoseiNenkinHokenryo)
       /\ IsInteger(calc.KenkoHokenryo)
       /\ IsInteger(calc.KoyoHokenryo_RodoshaFutan)
       /\ IsInteger(calc.KoyoHokenryo_JigyonushiFutan)
       /\ IsInteger(calc.RosaiHokenryo_JigyonushiFutan)

C3_Witness ==
    /\ calc.ran
    /\ calc.formData.income = 3600001
    /\ calc.KoseiNenkinHokenryo = Num(329400)
    /\ calc.KazeiShotokuKingaku = Num(1041000)
    /\ calc.ShotokuzeiNenzeigaku = Num(53100)

(* C4.  The income tax is monotonically non-decreasing: for taxable        *)
(* incomes 0 <= a <= b, the tax of a is at most the tax of b.              *)
C4_TaxMonotone ==
    (ZeiReturned /\ 0 <= probe.a /\ probe.a <= probe.b)
    => Leq(probe.ra, probe.rb)

C4_Witness ==
    /\ ZeiReturned
    /\ probe.a = 1949000
    /\ probe.b = 1950000
    /\ probe.ra = Num(97450)
    /\ probe.rb = Num(97500)

(* C5.  A submission whose values have income < 1, rent < 0, savings < 0   *)
(* or income < rent + savings does not run onSubmit: the result list stays *)
(* what it was and the validation error message is shown.                  *)
C5_InvalidInputRejected ==
    [][(event' = "submit"
            /\ (values.income < 1 \/ values.rent < 0 \/ values.savings < 0
                    \/ values.income < values.rent + values.savings))
        => (result' = result /\ calc' = calc /\ ErrorShown(errors'))]_vars

C5_Witness ==
    /\ event = "submit"
    /\ values.income = 0
    /\ ErrorShown(errors)
    /\ calc.ran
    /\ Len(result) = 9

(* C6.  The result list changes only at a valid submission, which replaces *)
(* it by the nine rows the pipeline yields for the submitted values alone; *)
(* so it is always the output for the most recent valid submission.        *)
C6_ResultIsLatestValidSubmission ==
    [][IF event' = "submit" /\ ValidInput(values)
       THEN result' = OnSubmit(values).rows /\ Len(result') = 9
       ELSE result' = result]_vars

C6_Witness ==
    /\ event = "submit"
    /\ calc.ran
    /\ calc.formData = values
    /\ values = [income |-> 3000000, rent |-> 2000000, savings |-> 0]
    /\ Len(result) = 9
    /\ result[1].value = Num(3000000)

(* C7.  Bracket upper bounds are inclusive: an input equal to a threshold  *)
(* T is computed with the lower bracket's expression, and the next         *)
(* bracket's expression is first used at T + 1 for the deduction and at    *)
(* T + 1,000 for the tax (T + 1 .. T + 999 truncate to T).                 *)
C7_InclusiveUpperBounds ==
    /\ KojoReturned =>
        \A i \in 1..Len(KojoThresholds) :
            /\ probe.a = KojoThresholds[i] =>
                /\ probe.banda = i
                /\ probe.ra = KyuyoShotokuKojoReturn(i, probe.a)
            /\ probe.a = KojoThresholds[i] + 1 =>
                /\ probe.banda = i + 1
                /\ probe.ra = KyuyoShotokuKojoReturn(i + 1, probe.a)
    /\ ZeiReturned =>
        \A i \in 1..Len(ZeiThresholds) :
            /\ probe.a \in ZeiThresholds[i]..(ZeiThresholds[i] + 999) =>
                /\ probe.banda = i
                /\ probe.ra = ShotokuzeiReturn(i, ZeiThresholds[i])
            /\ probe.a = ZeiThresholds[i] + 1000 =>
                /\ probe.banda = i + 1
                /\ probe.ra = ShotokuzeiReturn(i + 1, probe.a)

C7_Witness ==
    /\ KojoReturned
    /\ probe.a = 1625000
    /\ probe.banda = 1
    /\ probe.ra = Num(550000)
    /\ probe.b = 1625001
    /\ probe.bandb = 2
    /\ probe.rb = [n |-> 550000, f |-> 4000]

(* C8.  For every validated input each of the nine row values that         *)
(* onSubmit produces is non-negative.                                      *)
C8_RowsNonNegative ==
    calc.ran => \A k \in 1..Len(result) : Leq(Num(0), result[k].value)

(* C9.  The value of the last row, zeikinto gokei, equals the sum of the   *)
(* values of the rows shakai hokenryo, shotokuzei, juminzei and shohizei.  *)
C9_TotalIsSumOfTaxRows ==
    calc.ran
    => ValueOf(result, "zeikinto gokei")
        = Add(Add(ValueOf(result, "shakai hokenryo"),
                  ValueOf(result, "shotokuzei")),
              Add(ValueOf(result, "juminzei"), ValueOf(result, "shohizei")))

(* C10.  For every income >= 0 the deduction lies in [0, income], so the   *)
(* employment income, income - deduction, lies in [0, income].             *)
C10_DeductionWithinIncome ==
    (KojoReturned /\ probe.a >= 0)
    => /\ Leq(Num(0), probe.ra)
       /\ Leq(probe.ra, Num(probe.a))
       /\ Leq(Num(0), KyuyoShotoku(probe.a, probe.ra))
       /\ Leq(KyuyoShotoku(probe.a, probe.ra), Num(probe.a))

==========================================================================
